---- MODULE Spec2Model ----
(***************************************************************************)
(* Model of the voucher export of tally_export (src/src/export.rs) and of  *)
(* the account type classifier of src/ledger/export_ledger.rs.             *)
(*                                                                         *)
(* Amounts are f64 in the source; they are modelled as integers, on which  *)
(* <, > and abs agree with the finite, non-NaN f64 values.  A Rust panic   *)
(* (panic!, unwrap on None/Err) ends the whole process: pc = "panicked".   *)
(* Option<String> is a sequence of length 0 (None) or 1 (Some).            *)
(***************************************************************************)
EXTENDS Integers, Sequences, FiniteSets, TLC

VARIABLES
    account_map_str,      \* export_data argument: the account alias CSV
    voucher_type_map_str, \* export_data argument: the voucher type alias CSV
    account_map,          \* Vec<NameMap> loaded from account_map_str
    voucher_type_map,     \* Vec<NameMap> loaded from voucher_type_map_str
    accounts,             \* account documents fetched from the data store
    dt,                   \* index in dates of the window being exported
    vouchers,             \* the vouchers fetched for the current window
    vi,                   \* position of for voucher in vouchers.iter()
    tally_messages,       \* Vec<TallyMessage> of the current window
    files,                \* the files written so far, in order
    panic,                \* message of the panic that ended the run, or ""
    pc,                   \* position in export_data, "idle" when it is not run
    export_ledger_run     \* the locals of export_ledger and its position

vars == << account_map_str, voucher_type_map_str, account_map, voucher_type_map,
           accounts, dt, vouchers, vi, tally_messages, files, panic, pc,
           export_ledger_run >>

----------------------------------------------------------------------------
(* Bounds of the model *)

\* longest list of legs (trns) of a voucher drawn as input
MaxLegs == 2
\* longest list of vouchers one get_voucher_data call returns
MaxFetched == 1
\* longest list of accounts export_ledger finds for a name
MaxAccounts == 2

\* the Option<String> values
None == << >>
Some(s) == << s >>

\* the panic messages of Option::unwrap and Result::unwrap
UnwrapNone == "called Option::unwrap() on a None value"
UnwrapErr == "called Result::unwrap() on an Err value"

\* the result of an operator whose code panicked
Panicked(msg) == [panicked |-> TRUE, msg |-> msg]
Returned(v) == [panicked |-> FALSE, value |-> v]

----------------------------------------------------------------------------
(* Pure functions of export.rs *)

\* fn cmp_f64
cmp_f64(a, b) ==
    IF a < b THEN "Less"
    ELSE IF a > b THEN "Greater"
    ELSE "Equal"

\* f64::abs
abs(x) == IF x < 0 THEN 0 - x ELSE x

\* LedgerEntry::new marking an amount of 0 as deemed positive too
LedgerEntry_new_nonpositive(ledger_name, amount) ==
    [ ledger_name |-> ledger_name,
      is_deemed_positive |-> IF amount <= 0 THEN "Yes" ELSE "No",
      amount |-> amount ]

\* LedgerEntry::new
LedgerEntry_new(ledger_name, amount) ==
    [ ledger_name |-> ledger_name,
      is_deemed_positive |-> IF amount < 0 THEN "Yes" ELSE "No",
      amount |-> amount ]

\* Voucher::new
Voucher_new(date, ref_no, ref_date, voucher_type, party_ledger, voucher_no, ledger_entries) ==
    [ date |-> date, ref_no |-> ref_no, ref_date |-> ref_date,
      voucher_type |-> voucher_type, party_ledger |-> party_ledger,
      voucher_no |-> voucher_no, ledger_entries |-> ledger_entries ]

\* TallyMessage::new
TallyMessage_new(voucher) == [ items |-> << voucher >> ]

\* the document wrappers around the messages in reverse order
ExportData_new_reversed(items) ==
    [ envelope |-> [ body |-> [ import_data |-> [ request_data |->
        [ items |-> [ i \in 1..Len(items) |-> items[Len(items) + 1 - i] ] ] ] ] ] ]

\* the document wrappers RequestData, ImportData, Body, Envelope, ExportData
ExportData_new(items) ==
    [ envelope |-> [ body |-> [ import_data |-> [ request_data |->
        [ items |-> items ] ] ] ] ]

\* an alias lookup in which a later row of the same source name wins
alias_or_name_last(name_map, name) ==
    LET hits == { i \in 1..Len(name_map) : name_map[i].auditplus = name }
    IN  IF hits = {} THEN name
        ELSE name_map[CHOOSE i \in hits : \A j \in hits : i >= j].tally

\* name_map.iter().find(|x| x.auditplus == name): the first matching row's
\* tally name, else the name itself
alias_or_name(name_map, name) ==
    LET hits == { i \in 1..Len(name_map) : name_map[i].auditplus = name }
    IN  IF hits = {} THEN name
        ELSE name_map[CHOOSE i \in hits : \A j \in hits : i <= j].tally

\* the match of get_voucher_type
VoucherTypeNames ==
    [ SALE |-> "Sales", CREDIT_NOTE |-> "Credit Note", PURCHASE |-> "Purchase",
      DEBIT_NOTE |-> "Debit Note", PAYMENT |-> "Payment", RECEIPT |-> "Receipt",
      JOURNAL |-> "Journal", CONTRA |-> "Contra" ]

\* fn get_voucher_type
get_voucher_type(voucher_type, vt_map) ==
    IF voucher_type \notin DOMAIN VoucherTypeNames
    THEN Panicked("Invalid voucher type found")
    ELSE Returned(alias_or_name(vt_map, VoucherTypeNames[voucher_type]))

\* the account_type codes whose legs are pushed to party_ledgers
PartyAccountTypes ==
    { "TRADE_RECEIVABLE", "TRADE_PAYABLE", "ACCOUNT_RECEIVABLE", "ACCOUNT_PAYABLE",
      "CASH", "BANK_ACCOUNT", "BANK_OD_ACCOUNT", "EFT_ACCOUNT" }

\* an unstable sort_by: an entry is placed before the entries that compare
\* equal to it
RECURSIVE insert_desc_unstable(_, _)
insert_desc_unstable(sorted, e) ==
    IF sorted = << >> THEN << e >>
    ELSE IF cmp_f64(e.amount, Head(sorted).amount) # "Less"
         THEN << e >> \o sorted
         ELSE << Head(sorted) >> \o insert_desc_unstable(Tail(sorted), e)

\* slice::sort_by(|a, b| cmp_f64(&b.amount, &a.amount)): a stable sort; an entry
\* is placed before the first entry the comparator orders after it
RECURSIVE insert_desc(_, _)
insert_desc(sorted, e) ==
    IF sorted = << >> THEN << e >>
    ELSE IF cmp_f64(e.amount, Head(sorted).amount) = "Greater"
         THEN << e >> \o sorted
         ELSE << Head(sorted) >> \o insert_desc(Tail(sorted), e)

RECURSIVE sort_by_amount_desc(_)
sort_by_amount_desc(entries) ==
    IF entries = << >> THEN << >>
    ELSE insert_desc(sort_by_amount_desc(SubSeq(entries, 1, Len(entries) - 1)),
                     entries[Len(entries)])

\* accounts.iter().find(|x| x.get_str("id").unwrap() == trn.account): the first
\* account document with that id; unwrap panics when there is none
find_account(accts, id) ==
    LET hits == { i \in 1..Len(accts) : accts[i].id = id }
    IN  IF hits = {} THEN Panicked(UnwrapNone)
        ELSE Returned(accts[CHOOSE i \in hits : \A j \in hits : i <= j])

\* the accumulators of one voucher before its first leg
NoLegsYet ==
    [ panicked |-> FALSE, msg |-> "", party_ledger_name |-> "",
      ledger_entries |-> << >>, party_ledgers |-> << >> ]

\* the account name of a leg: the name of its account document, through the
\* account alias table
account_name_of(trn, accts, acc_map) ==
    LET account_doc == find_account(accts, trn.account)
    IN  IF account_doc.panicked THEN account_doc
        ELSE Returned(alias_or_name(acc_map, account_doc.value.name))

\* the per-leg party rules taking the account id of the leg for its name
per_leg_party_account_id(party_ledger_name, voucher_type_name, trn, account_name) ==
    LET amount == trn.amount
        party1 == IF voucher_type_name \in {"Contra", "Receipt"} /\ amount > 0
                  THEN trn.account ELSE party_ledger_name
    IN  IF voucher_type_name \in {"Payment"} /\ amount < 0
        THEN trn.account ELSE party1

\* the per-leg party rules with a leg of amount 0 qualifying
per_leg_party_zero_qualifies(party_ledger_name, voucher_type_name, trn, account_name) ==
    LET amount == trn.amount
        party1 == IF voucher_type_name \in {"Contra", "Receipt"} /\ amount >= 0
                  THEN account_name ELSE party_ledger_name
    IN  IF voucher_type_name \in {"Payment"} /\ amount <= 0
        THEN account_name ELSE party1

\* the per-leg party rules: a Contra or Receipt leg with amount > 0.0 and a
\* Payment leg with amount < 0.0 overwrite party_ledger_name
per_leg_party(party_ledger_name, voucher_type_name, trn, account_name) ==
    LET amount == trn.amount
        party1 == IF voucher_type_name \in {"Contra", "Receipt"} /\ amount > 0
                  THEN account_name ELSE party_ledger_name
    IN  IF voucher_type_name \in {"Payment"} /\ amount < 0
        THEN account_name ELSE party1

\* party_ledgers keeping the signed amount of the leg
push_party_ledger_signed(party_ledgers, trn, ledger) ==
    IF trn.account_type \in PartyAccountTypes
    THEN Append(party_ledgers, ledger)
    ELSE party_ledgers

\* a leg of a party account type is pushed to party_ledgers with the absolute
\* value of its amount
push_party_ledger(party_ledgers, trn, ledger) ==
    IF trn.account_type \in PartyAccountTypes
    THEN Append(party_ledgers, [ ledger EXCEPT !.amount = abs(ledger.amount) ])
    ELSE party_ledgers

\* the body of for trn in voucher.trns.iter()
trn_step(acc, trn, voucher_type_name, accts, acc_map) ==
    LET name == account_name_of(trn, accts, acc_map)
    IN  IF name.panicked
        THEN [ acc EXCEPT !.panicked = TRUE, !.msg = name.msg ]
        ELSE
        LET account_name == name.value
            ledger == LedgerEntry_new(account_name, trn.amount)
        IN  [ acc EXCEPT
                !.ledger_entries = Append(@, ledger),
                !.party_ledger_name =
                    per_leg_party(@, voucher_type_name, trn, account_name),
                !.party_ledgers = push_party_ledger(@, trn, ledger) ]

\* for trn in voucher.trns.iter(): the legs in order, stopping at a panic
RECURSIVE trns_loop(_, _, _, _, _)
trns_loop(acc, trns, voucher_type_name, accts, acc_map) ==
    IF trns = << >> \/ acc.panicked THEN acc
    ELSE trns_loop(trn_step(acc, Head(trns), voucher_type_name, accts, acc_map),
                   Tail(trns), voucher_type_name, accts, acc_map)

\* the first entry taken as the party of every voucher that no other party
\* rule names
journal_party_default(acc, voucher_type_name) ==
    IF voucher_type_name \in { "Contra", "Receipt", "Payment", "Sales", "Purchase",
                               "Credit Note", "Debit Note" }
    THEN acc
    ELSE IF acc.ledger_entries = << >>
         THEN [ acc EXCEPT !.panicked = TRUE, !.msg = UnwrapNone ]
         ELSE [ acc EXCEPT !.party_ledger_name = acc.ledger_entries[1].ledger_name ]

\* the party of a Journal voucher taken from ledger_entries.last()
journal_party_last(acc, voucher_type_name) ==
    IF voucher_type_name \notin {"Journal"} THEN acc
    ELSE IF acc.ledger_entries = << >>
         THEN [ acc EXCEPT !.panicked = TRUE, !.msg = UnwrapNone ]
         ELSE [ acc EXCEPT !.party_ledger_name =
                    acc.ledger_entries[Len(acc.ledger_entries)].ledger_name ]

\* the party of a Journal voucher: ledger_entries.first().unwrap()
journal_party(acc, voucher_type_name) ==
    IF voucher_type_name \notin {"Journal"} THEN acc
    ELSE IF acc.ledger_entries = << >>
         THEN [ acc EXCEPT !.panicked = TRUE,
                           !.msg = UnwrapNone ]
         ELSE [ acc EXCEPT !.party_ledger_name = acc.ledger_entries[1].ledger_name ]

\* the aggregate party rule leaving the party as it is when party_ledgers is
\* empty
sales_party_or_unchanged(acc, voucher_type_name) ==
    IF voucher_type_name \notin {"Sales", "Purchase", "Credit Note", "Debit Note"}
    THEN acc
    ELSE LET sorted == sort_by_amount_desc(acc.party_ledgers)
         IN  IF sorted = << >>
             THEN acc
             ELSE [ acc EXCEPT !.party_ledger_name = sorted[1].ledger_name,
                               !.party_ledgers = << >> ]

\* the party of a Sales, Purchase, Credit Note or Debit Note voucher: the first
\* of party_ledgers sorted by absolute amount descending
sales_party(acc, voucher_type_name) ==
    IF voucher_type_name \notin {"Sales", "Purchase", "Credit Note", "Debit Note"}
    THEN acc
    ELSE LET sorted == sort_by_amount_desc(acc.party_ledgers)
         IN  IF sorted = << >>
             THEN [ acc EXCEPT !.panicked = TRUE,
                       !.msg = UnwrapNone ]
             ELSE [ acc EXCEPT !.party_ledger_name = sorted[1].ledger_name,
                               !.party_ledgers = << >> ]

\* the display order of the entries: sorted unless the voucher is a Journal
display_entries(ledger_entries, voucher_type_name) ==
    IF voucher_type_name \notin {"Journal"}
    THEN sort_by_amount_desc(ledger_entries)
    ELSE ledger_entries

\* the body of for voucher in vouchers.iter() up to Voucher::new
transform_voucher(voucher, accts, acc_map, vt_map) ==
    LET vt == get_voucher_type(voucher.voucher_type, vt_map)
    IN  IF vt.panicked THEN vt
        ELSE
        LET voucher_type_name == vt.value
            looped == trns_loop(NoLegsYet, voucher.trns, voucher_type_name,
                                accts, acc_map)
            jrnl == IF looped.panicked THEN looped
                    ELSE journal_party(looped, voucher_type_name)
            acc == IF jrnl.panicked THEN jrnl
                   ELSE sales_party(jrnl, voucher_type_name)
        IN  IF acc.panicked THEN Panicked(acc.msg)
            ELSE Returned(Voucher_new(
                     voucher.date, voucher.ref_no, voucher.bill_date,
                     voucher_type_name, acc.party_ledger_name, voucher.voucher_no,
                     display_entries(acc.ledger_entries, voucher_type_name)))

\* the position of a column in the header of a CSV
column(header, name) == CHOOSE i \in 1..Len(header) : header[i] = name

\* rdr.deserialize() yields Ok for a record: it is as long as the header, and
\* the header has the two columns of NameMap
Deserializes(header, record) ==
    /\ Len(record) = Len(header)
    /\ \E i \in 1..Len(header) : header[i] = "auditplus"
    /\ \E i \in 1..Len(header) : header[i] = "tally"

\* get_name_map skipping the records that do not deserialize
get_name_map_skipping(map_str) ==
    IF Len(map_str) <= 1 THEN Returned(<< >>)
    ELSE LET header == map_str[1]
             rows == SelectSeq(Tail(map_str), LAMBDA r : Deserializes(header, r))
         IN  Returned([ i \in 1..Len(rows) |->
                 [ auditplus |-> rows[i][column(header, "auditplus")],
                   tally |-> rows[i][column(header, "tally")] ] ])

\* fn get_name_map: the first record of the CSV is its header; a record for
\* which deserialize yields Err makes unwrap panic
get_name_map(map_str) ==
    IF Len(map_str) <= 1 THEN Returned(<< >>)
    ELSE LET header == map_str[1]
             rows == Tail(map_str)
         IN  IF \E i \in 1..Len(rows) : ~Deserializes(header, rows[i])
             THEN Panicked(UnwrapErr)
             ELSE Returned([ i \in 1..Len(rows) |->
                     [ auditplus |-> rows[i][column(header, "auditplus")],
                       tally |-> rows[i][column(header, "tally")] ] ])

----------------------------------------------------------------------------
(* Pure functions of export_ledger.rs *)

\* the match of get_account_type
AccountTypeNames ==
    [ DIRECT_INCOME |-> "Direct Income", INDIRECT_INCOME |-> "Indirect Income",
      SALE |-> "Sale", DIRECT_EXPENSE |-> "Direct Expense",
      INDIRECT_EXPENSE |-> "Indirect Expense", PURCHASE |-> "Purchase",
      FIXED_ASSET |-> "Fixed Asset", CURRENT_ASSET |-> "Current Asset",
      LONGTERM_LIABILITY |-> "LongTerm Liability",
      CURRENT_LIABILITY |-> "Current Liability", EQUITY |-> "Equity",
      CASH |-> "Cash", STOCK |-> "Stock", UNDEPOSITED_FUNDS |-> "Undeposited Funds",
      BANK_ACCOUNT |-> "Bank Account", BANK_OD_ACCOUNT |-> "Bank OD Account",
      GST_PAYABLE |-> "Direct Income", GST_RECEIVABLE |-> "Indirect Income",
      EFT_ACCOUNT |-> "Sale", PAYABLE |-> "Payable", RECEIVABLE |-> "Receivable",
      ACCOUNT_PAYABLE |-> "Account Payable",
      ACCOUNT_RECEIVABLE |-> "Account Receivable",
      TRADE_PAYABLE |-> "Trade Payable", TRADE_RECEIVABLE |-> "Trade Receivable",
      BRANCH_TRANSFER |-> "Branch Transfer" ]

\* fn get_account_type
get_account_type(account_type, account_type_map) ==
    IF account_type \notin DOMAIN AccountTypeNames
    THEN Panicked("Invalid account type found")
    ELSE Returned(alias_or_name(account_type_map, AccountTypeNames[account_type]))

----------------------------------------------------------------------------
(* The inputs of a run *)

\* the header of an alias CSV: the columns of NameMap
NameMapHeader == << "auditplus", "tally" >>

\* account alias tables: none, and one with a repeated source name
AccountMapStrs ==
    { << >>,
      << NameMapHeader, << "Cash", "Cash A/c" >>, << "Cash", "Petty Cash" >> >> }

\* voucher type alias tables: none, and one that renames Sales and Journal to
\* names no party rule knows, repeats Sales, and renames Receipt to Payment
VoucherTypeMapStrs ==
    { << >>,
      << NameMapHeader, << "Sales", "Memo" >>, << "Journal", "Day Book" >>,
         << "Sales", "Journal" >>, << "Receipt", "Payment" >> >> }

\* alias tables with a row that does not deserialize: a short row after a good
\* one, a long row, and rows under a header without the NameMap columns
MalformedMapStrs ==
    { << NameMapHeader, << "Cash", "Cash A/c" >>, << "Sales" >> >>,
      << NameMapHeader, << "Sales", "Memo", "x" >> >>,
      << << "from", "to" >>, << "Sales", "Memo" >> >> }

\* the account documents of the data store: id and name
AccountDocs ==
    << [ id |-> "1", name |-> "Cash" ], [ id |-> "2", name |-> "Sales Income" ],
       [ id |-> "3", name |-> "Bank" ] >>

\* the account ids of legs; no account document has id "9"
AccountIds == { "1", "2", "3", "9" }

\* the amounts of legs (credit - debit)
Amounts == { -2, -1, 0, 1 }

\* the account_type codes of legs; "BOGUS" is no account type of the program
AccountTypeCodes == { "CASH", "BANK_ACCOUNT", "DIRECT_INCOME", "BOGUS" }

\* the account_type codes seen with each account id
TypesOfAccount ==
    [ a \in AccountIds |->
        CASE a = "1" -> { "CASH" }
          [] a = "2" -> { "DIRECT_INCOME", "BOGUS" }
          [] a = "3" -> { "BANK_ACCOUNT" }
          [] OTHER   -> { "CASH" } ]

\* Transaction: the legs drawn as input
Transactions ==
    { t \in [ account : AccountIds, amount : Amounts, account_type : AccountTypeCodes ] :
        /\ t.account_type \in TypesOfAccount[t.account]
        /\ t.account = "9" => t.amount = 1 }

\* the voucher_type codes drawn as input; "STOCK_ADJUSTMENT" is no voucher type
\* of the program
VoucherTypeCodes == DOMAIN VoucherTypeNames \cup { "STOCK_ADJUSTMENT" }

\* the sequences over S of length at most n
SeqsUpTo(S, n) == UNION { [ 1..k -> S ] : k \in 0..n }

\* AGVoucher
AGVoucher(voucher_type, voucher_no, trns) ==
    [ date |-> "2022-04-01", bill_date |-> None, ref_no |-> None,
      voucher_type |-> voucher_type, voucher_no |-> voucher_no, trns |-> trns ]

\* the vouchers drawn as input of one transformation
AGVouchers ==
    { AGVoucher(vt, Some("7"), trns) :
        vt \in VoucherTypeCodes, trns \in SeqsUpTo(Transactions, MaxLegs) }

\* the vouchers the data store returns in a run: two that transform, one with
\* an unknown voucher_type code, one with a leg of an unknown account
StoredVouchers ==
    { AGVoucher("SALE", Some("S1"),
          << [ account |-> "1", amount |-> 1, account_type |-> "CASH" ],
             [ account |-> "2", amount |-> -1, account_type |-> "DIRECT_INCOME" ] >>),
      AGVoucher("JOURNAL", None,
          << [ account |-> "2", amount |-> -2, account_type |-> "BOGUS" ],
             [ account |-> "3", amount |-> 1, account_type |-> "BANK_ACCOUNT" ],
             [ account |-> "1", amount |-> 1, account_type |-> "CASH" ] >>),
      AGVoucher("STOCK_ADJUSTMENT", Some("X3"), << >>),
      AGVoucher("PAYMENT", Some("P4"),
          << [ account |-> "9", amount |-> 1, account_type |-> "CASH" ] >>) }

\* account type alias tables: none, and one that repeats Cash and renames
\* Direct Income
AccountTypeMapStrs ==
    { << >>,
      << NameMapHeader, << "Cash", "Cash-in-hand" >>,
         << "Direct Income", "Sales Revenue" >>, << "Cash", "Petty Cash" >> >> }

\* the account_type codes of the accounts export_ledger finds; "BOGUS" is no
\* account type of the program
LedgerAccountTypeCodes == DOMAIN AccountTypeNames \cup { "BOGUS" }

\* CAccount: the accounts of the name asked for
CAccounts == [ name : { "Main" }, account_type : LedgerAccountTypeCodes ]

\* export_ledger is not running
LedgerIdle ==
    [ pc |-> "idle", account_type_map_str |-> << >>, account_type_map |-> << >>,
      account |-> << >>, i |-> 1, tally_messages |-> << >>, data |-> << >>,
      panic |-> "" ]

\* let dates: the first day of each window, as dt.0.to_string()
dates == << "2022-04-01", "2022-05-01" >>

----------------------------------------------------------------------------
(* export_data *)

Init ==
    /\ account_map_str \in AccountMapStrs \cup MalformedMapStrs
    /\ voucher_type_map_str \in VoucherTypeMapStrs \cup MalformedMapStrs
    /\ account_map = << >>
    /\ voucher_type_map = << >>
    /\ accounts = << >>
    /\ dt = 1
    /\ vouchers = << >>
    /\ vi = 1
    /\ tally_messages = << >>
    /\ files = << >>
    /\ panic = ""
    /\ pc = "load_account_map"
    /\ export_ledger_run = LedgerIdle

\* let account_map = get_name_map(account_map_str)
LoadAccountMap ==
    /\ pc = "load_account_map"
    /\ LET r == get_name_map(account_map_str)
       IN  IF r.panicked
           THEN /\ pc' = "panicked"
                /\ panic' = r.msg
                /\ UNCHANGED account_map
           ELSE /\ account_map' = r.value
                /\ pc' = "load_voucher_type_map"
                /\ UNCHANGED panic
    /\ UNCHANGED << export_ledger_run, account_map_str, voucher_type_map_str,
                    voucher_type_map,
                    accounts, dt, vouchers, vi, tally_messages, files >>

\* let voucher_type_map = get_name_map(voucher_type_map_str)
LoadVoucherTypeMap ==
    /\ pc = "load_voucher_type_map"
    /\ LET r == get_name_map(voucher_type_map_str)
       IN  IF r.panicked
           THEN /\ pc' = "panicked"
                /\ panic' = r.msg
                /\ UNCHANGED voucher_type_map
           ELSE /\ voucher_type_map' = r.value
                /\ pc' = "fetch_accounts"
                /\ UNCHANGED panic
    /\ UNCHANGED << export_ledger_run, account_map_str, voucher_type_map_str,
                    account_map,
                    accounts, dt, vouchers, vi, tally_messages, files >>

\* let accounts = db.collection("accounts").find(..)
FetchAccounts ==
    /\ pc = "fetch_accounts"
    /\ accounts' = AccountDocs
    /\ pc' = "fetch_vouchers"
    /\ UNCHANGED << export_ledger_run, account_map_str, voucher_type_map_str,
                    account_map,
                    voucher_type_map, dt, vouchers, vi, tally_messages, files, panic >>

\* the head of for dt in dates: tally_messages is emptied and the vouchers of
\* the window are the cash sales followed by the credit sales
FetchVouchers ==
    /\ pc = "fetch_vouchers"
    /\ \E cash_sale \in SeqsUpTo(StoredVouchers, MaxFetched),
          credit_sale \in SeqsUpTo(StoredVouchers, MaxFetched) :
            vouchers' = cash_sale \o credit_sale
    /\ tally_messages' = << >>
    /\ vi' = 1
    /\ pc' = "transform"
    /\ UNCHANGED << export_ledger_run, account_map_str, voucher_type_map_str,
                    account_map,
                    voucher_type_map, accounts, dt, files, panic >>

\* one pass of for voucher in vouchers.iter(): the voucher is transformed and
\* pushed, wrapped, to tally_messages; a panic ends the run
TransformVoucher ==
    /\ pc = "transform"
    /\ vi <= Len(vouchers)
    /\ LET r == transform_voucher(vouchers[vi], accounts, account_map,
                                  voucher_type_map)
       IN  IF r.panicked
           THEN /\ pc' = "panicked"
                /\ panic' = r.msg
                /\ UNCHANGED << vi, tally_messages >>
           ELSE /\ tally_messages' = Append(tally_messages, TallyMessage_new(r.value))
                /\ vi' = vi + 1
                /\ UNCHANGED << pc, panic >>
    /\ UNCHANGED << export_ledger_run, account_map_str, voucher_type_map_str,
                    account_map,
                    voucher_type_map, accounts, dt, vouchers, files >>

\* the tail of for dt in dates: the document of the window is written to its
\* file, and the next window starts or the run ends
WriteFile ==
    /\ pc = "transform"
    /\ vi > Len(vouchers)
    /\ files' = Append(files, [ name |-> dates[dt],
                                data |-> ExportData_new(tally_messages) ])
    /\ IF dt < Len(dates)
       THEN /\ dt' = dt + 1
            /\ pc' = "fetch_vouchers"
       ELSE /\ pc' = "done"
            /\ UNCHANGED dt
    /\ UNCHANGED << export_ledger_run, account_map_str, voucher_type_map_str,
                    account_map,
                    voucher_type_map, accounts, vouchers, vi, tally_messages, panic >>

Next ==
    \/ LoadAccountMap
    \/ LoadVoucherTypeMap
    \/ FetchAccounts
    \/ FetchVouchers
    \/ TransformVoucher
    \/ WriteFile

\* a run of export_data
Spec == Init /\ [][Next]_vars

\* one voucher of the first window about to be transformed, the alias tables
\* loaded and the accounts fetched
VoucherInit ==
    /\ account_map_str \in AccountMapStrs
    /\ voucher_type_map_str \in VoucherTypeMapStrs
    /\ account_map = get_name_map(account_map_str).value
    /\ voucher_type_map = get_name_map(voucher_type_map_str).value
    /\ accounts = AccountDocs
    /\ dt = 1
    /\ vouchers \in { << v >> : v \in AGVouchers }
    /\ vi = 1
    /\ tally_messages = << >>
    /\ files = << >>
    /\ panic = ""
    /\ pc = "transform"
    /\ export_ledger_run = LedgerIdle

VoucherNext == TransformVoucher

\* the transformation of one voucher, for every voucher of AGVouchers
VoucherSpec == VoucherInit /\ [][VoucherNext]_vars

----------------------------------------------------------------------------
(* export_ledger *)

\* Account::new with its LanguageName
Account_new(account, account_type) ==
    [ account |-> account, account_type |-> account_type,
      language_name |-> [ language_name |-> [ lang_name |-> account ] ] ]

\* export_ledger is called and export_data is not
LedgerInit ==
    /\ account_map_str = << >>
    /\ voucher_type_map_str = << >>
    /\ account_map = << >>
    /\ voucher_type_map = << >>
    /\ accounts = << >>
    /\ dt = 1
    /\ vouchers = << >>
    /\ vi = 1
    /\ tally_messages = << >>
    /\ files = << >>
    /\ panic = ""
    /\ pc = "idle"
    /\ \E map_str \in AccountTypeMapStrs \cup MalformedMapStrs :
          export_ledger_run = [ LedgerIdle EXCEPT !.pc = "load_map",
                                       !.account_type_map_str = map_str ]

\* the variables of export_data
export_data_vars ==
    << account_map_str, voucher_type_map_str, account_map, voucher_type_map,
       accounts, dt, vouchers, vi, tally_messages, files, panic, pc >>

\* let account_type_map = crate::get_name_map(account_type_map_str)
LedgerLoadMap ==
    /\ export_ledger_run.pc = "load_map"
    /\ LET r == get_name_map(export_ledger_run.account_type_map_str)
       IN  export_ledger_run' =
               IF r.panicked
               THEN [ export_ledger_run EXCEPT !.pc = "panicked", !.panic = r.msg ]
               ELSE [ export_ledger_run EXCEPT !.pc = "find",
                                               !.account_type_map = r.value ]
    /\ UNCHANGED export_data_vars

\* let account = db.collection("accounts").find({"name": account_name})
LedgerFind ==
    /\ export_ledger_run.pc = "find"
    /\ \E found \in SeqsUpTo(CAccounts, MaxAccounts) :
          export_ledger_run' =
              [ export_ledger_run EXCEPT !.pc = "classify", !.account = found,
                                         !.i = 1 ]
    /\ UNCHANGED export_data_vars

\* one pass of for acc in account: the account is classified and pushed,
\* wrapped, to tally_messages; a panic ends the run
LedgerClassify ==
    /\ export_ledger_run.pc = "classify"
    /\ export_ledger_run.i <= Len(export_ledger_run.account)
    /\ LET acc == export_ledger_run.account[export_ledger_run.i]
           r == get_account_type(acc.account_type, export_ledger_run.account_type_map)
       IN  export_ledger_run' =
               IF r.panicked
               THEN [ export_ledger_run EXCEPT !.pc = "panicked", !.panic = r.msg ]
               ELSE [ export_ledger_run EXCEPT
                        !.tally_messages =
                            Append(@, TallyMessage_new(Account_new(acc.name, r.value))),
                        !.i = @ + 1 ]
    /\ UNCHANGED export_data_vars

\* the document of the accounts is returned
LedgerReturn ==
    /\ export_ledger_run.pc = "classify"
    /\ export_ledger_run.i > Len(export_ledger_run.account)
    /\ export_ledger_run' =
           [ export_ledger_run EXCEPT
               !.pc = "returned",
               !.data = ExportData_new(export_ledger_run.tally_messages) ]
    /\ UNCHANGED export_data_vars

LedgerNext ==
    \/ LedgerLoadMap
    \/ LedgerFind
    \/ LedgerClassify
    \/ LedgerReturn

\* a call of export_ledger
LedgerSpec == LedgerInit /\ [][LedgerNext]_vars

\* the places that resolve a name through an alias table: the transformation
\* of one voucher, and a call of export_ledger
AliasInit == VoucherInit \/ LedgerInit

AliasNext == VoucherNext \/ LedgerNext

AliasSpec == AliasInit /\ [][AliasNext]_vars

----------------------------------------------------------------------------
(* The claims *)

\* the positions of the vouchers emitted in the current window: the k-th
\* message of tally_messages wraps the transformation of the k-th voucher
Emitted == 1..Len(tally_messages)
InputOf(k) == vouchers[k]
OutputOf(k) == tally_messages[k].items[1]

\* the ledger name of a leg: its account name through the account alias table
LedgerNameOfLeg(trn) == account_name_of(trn, accounts, account_map).value

\* the voucher type names of the aggregate party rule
SalesFamily == { "Sales", "Purchase", "Credit Note", "Debit Note" }

\* the account_type codes of the party candidates
PartyCandidateCodes ==
    { "TRADE_RECEIVABLE", "TRADE_PAYABLE", "ACCOUNT_RECEIVABLE", "ACCOUNT_PAYABLE",
      "CASH", "BANK_ACCOUNT", "BANK_OD_ACCOUNT", "EFT_ACCOUNT" }

Magnitude(x) == IF x >= 0 THEN x ELSE -x

\* C1: the party_ledger_name of every emitted voucher is empty or the
\* ledger_name of one of the entries of that voucher
C1_PartyIsAnEntryName ==
    \A k \in Emitted :
        \/ OutputOf(k).party_ledger = ""
        \/ \E i \in 1..Len(OutputOf(k).ledger_entries) :
               OutputOf(k).ledger_entries[i].ledger_name = OutputOf(k).party_ledger

\* a voucher is emitted whose party is an aliased account name
C1_Witness ==
    \E k \in Emitted :
        /\ OutputOf(k).party_ledger = "Cash A/c"
        /\ \E i \in 1..Len(InputOf(k).trns) : InputOf(k).trns[i].account = "1"

\* C2: the party of an emitted Sales, Purchase, Credit Note or Debit Note
\* voucher with a candidate leg is the ledger name of the candidate leg of
\* largest absolute amount, the earliest one among those tied
C2_SalesPartyIsLargestCandidate ==
    \A k \in Emitted :
        LET trns == InputOf(k).trns
            cand == { i \in 1..Len(trns) : trns[i].account_type \in PartyCandidateCodes }
        IN  (OutputOf(k).voucher_type \in SalesFamily /\ cand # {}) =>
                \E i \in cand :
                    /\ \A j \in cand :
                          \/ Magnitude(trns[i].amount) > Magnitude(trns[j].amount)
                          \/ /\ Magnitude(trns[i].amount) = Magnitude(trns[j].amount)
                             /\ i <= j
                    /\ OutputOf(k).party_ledger = LedgerNameOfLeg(trns[i])

\* a Sales family voucher is emitted whose party is the second of two candidate
\* legs, larger in absolute amount and smaller in amount than the first
C2_Witness ==
    \E k \in Emitted :
        LET trns == InputOf(k).trns
        IN  /\ OutputOf(k).voucher_type \in SalesFamily
            /\ Len(trns) = 2
            /\ trns[1].account_type \in PartyCandidateCodes
            /\ trns[2].account_type \in PartyCandidateCodes
            /\ trns[1].amount = 1 /\ trns[2].amount = -2
            /\ LedgerNameOfLeg(trns[1]) # LedgerNameOfLeg(trns[2])
            /\ OutputOf(k).party_ledger = LedgerNameOfLeg(trns[2])

\* C3: the party of an emitted Contra or Receipt voucher is the ledger name of
\* its last leg with amount > 0, that of an emitted Payment voucher the one of
\* its last leg with amount < 0, and empty when no leg qualifies
C3_PerLegPartyIsLastQualifying ==
    \A k \in Emitted :
        LET trns == InputOf(k).trns
            name == OutputOf(k).voucher_type
            qual == IF name \in { "Contra", "Receipt" }
                    THEN { i \in 1..Len(trns) : trns[i].amount > 0 }
                    ELSE { i \in 1..Len(trns) : trns[i].amount < 0 }
        IN  name \in { "Contra", "Receipt", "Payment" } =>
                IF qual = {}
                THEN OutputOf(k).party_ledger = ""
                ELSE \E i \in qual :
                        /\ \A j \in qual : j <= i
                        /\ OutputOf(k).party_ledger = LedgerNameOfLeg(trns[i])

\* a Contra voucher with two legs of amount > 0 is emitted with the party of
\* the second leg
C3_Witness ==
    \E k \in Emitted :
        LET trns == InputOf(k).trns
        IN  /\ OutputOf(k).voucher_type = "Contra"
            /\ Len(trns) = 2
            /\ trns[1].amount > 0 /\ trns[2].amount > 0
            /\ LedgerNameOfLeg(trns[1]) # LedgerNameOfLeg(trns[2])
            /\ OutputOf(k).party_ledger = LedgerNameOfLeg(trns[2])

\* C4: the party of an emitted Journal voucher with a leg is the ledger name of
\* its first leg
C4_JournalPartyIsFirstLeg ==
    \A k \in Emitted :
        (OutputOf(k).voucher_type = "Journal" /\ Len(InputOf(k).trns) >= 1) =>
            OutputOf(k).party_ledger = LedgerNameOfLeg(InputOf(k).trns[1])

\* a Journal voucher is emitted whose first leg is a debit of a non-party
\* account type and whose second leg has another name
C4_Witness ==
    \E k \in Emitted :
        LET trns == InputOf(k).trns
        IN  /\ OutputOf(k).voucher_type = "Journal"
            /\ Len(trns) = 2
            /\ trns[1].amount < 0 /\ trns[2].amount > 0
            /\ trns[1].account_type \notin PartyCandidateCodes
            /\ LedgerNameOfLeg(trns[1]) # LedgerNameOfLeg(trns[2])
            /\ OutputOf(k).party_ledger = LedgerNameOfLeg(trns[1])

\* the permutations of 1..n
Orderings(n) ==
    { p \in [ 1..n -> 1..n ] : \A i, j \in 1..n : p[i] = p[j] => i = j }

\* entries is the legs trns rearranged by p: entry i is leg p[i]
Rearranges(entries, trns, p) ==
    \A i \in 1..Len(trns) :
        /\ entries[i].ledger_name = LedgerNameOfLeg(trns[p[i]])
        /\ entries[i].amount = trns[p[i]].amount

\* C5: the entries of an emitted voucher are its legs sorted by amount
\* descending, legs of equal amount in leg order, unless the voucher is a
\* Journal, whose entries are its legs in leg order
C5_EntriesSortedUnlessJournal ==
    \A k \in Emitted :
        LET trns == InputOf(k).trns
            entries == OutputOf(k).ledger_entries
            n == Len(trns)
        IN  /\ Len(entries) = n
            /\ IF OutputOf(k).voucher_type = "Journal"
               THEN Rearranges(entries, trns, [ i \in 1..n |-> i ])
               ELSE \E p \in Orderings(n) :
                       /\ Rearranges(entries, trns, p)
                       /\ \A i, j \in 1..n :
                             i < j =>
                                 \/ entries[i].amount > entries[j].amount
                                 \/ /\ entries[i].amount = entries[j].amount
                                    /\ p[i] < p[j]

\* a voucher that is no Journal is emitted with its two legs swapped, its
\* party being the leg that is now the second entry
C5_Witness ==
    \E k \in Emitted :
        LET trns == InputOf(k).trns
            entries == OutputOf(k).ledger_entries
        IN  /\ OutputOf(k).voucher_type = "Payment"
            /\ Len(trns) = 2
            /\ trns[1].amount < trns[2].amount
            /\ entries[1].amount = trns[2].amount
            /\ entries[2].amount = trns[1].amount
            /\ OutputOf(k).party_ledger = entries[2].ledger_name
            /\ entries[1].ledger_name # entries[2].ledger_name

\* C6: is_deemed_positive of every entry of every emitted voucher is "Yes"
\* when its amount is less than 0 and "No" otherwise
C6_DeemedPositiveIffNegative ==
    \A k \in Emitted :
        \A i \in 1..Len(OutputOf(k).ledger_entries) :
            LET e == OutputOf(k).ledger_entries[i]
            IN  /\ e.is_deemed_positive \in { "Yes", "No" }
                /\ e.is_deemed_positive = "Yes" <=> e.amount < 0

\* a sorted voucher is emitted with an entry of amount 0 marked "No" before
\* an entry of amount less than 0 marked "Yes"
C6_Witness ==
    \E k \in Emitted :
        LET entries == OutputOf(k).ledger_entries
        IN  /\ Len(entries) = 2
            /\ InputOf(k).trns[1].amount < 0
            /\ entries[1].amount = 0 /\ entries[1].is_deemed_positive = "No"
            /\ entries[2].amount < 0 /\ entries[2].is_deemed_positive = "Yes"

\* C7: a voucher that fails (unknown voucher_type code, unknown account id)
\* aborts only itself: when the run has ended, every voucher of the window
\* that transforms without failure is in the file of the window
C7_FailureAbortsOnlyThatVoucher ==
    pc \in { "done", "panicked" } =>
        \A k \in 1..Len(vouchers) :
            LET r == transform_voucher(vouchers[k], accounts, account_map,
                                       voucher_type_map)
            IN  ~r.panicked =>
                    \E f \in 1..Len(files) :
                        /\ files[f].name = dates[dt]
                        /\ \E m \in 1..Len(files[f].data.envelope.body.import_data
                                              .request_data.items) :
                               files[f].data.envelope.body.import_data
                                   .request_data.items[m].items = << r.value >>

\* C8: no leg of an emitted voucher has an account_type code that
\* get_account_type does not recognize
C8_UnknownAccountTypeFails ==
    \A k \in Emitted :
        \A i \in 1..Len(InputOf(k).trns) :
            ~get_account_type(InputOf(k).trns[i].account_type, << >>).panicked

\* C9: no Sales, Purchase, Credit Note or Debit Note voucher is emitted
\* without a leg of a party candidate account type
C9_NoSalesVoucherWithoutCandidate ==
    \A k \in Emitted :
        OutputOf(k).voucher_type \in SalesFamily =>
            \E i \in 1..Len(InputOf(k).trns) :
                InputOf(k).trns[i].account_type \in PartyCandidateCodes

\* the transformation of a Sales family voucher with two legs of known
\* accounts, none of them a party candidate, has panicked and emitted nothing
C9_Witness ==
    /\ pc = "panicked"
    /\ panic = UnwrapNone
    /\ tally_messages = << >>
    /\ vi = 1 /\ Len(vouchers) = 1
    /\ LET v == vouchers[1]
           vt == get_voucher_type(v.voucher_type, voucher_type_map)
       IN  /\ ~vt.panicked
           /\ vt.value \in SalesFamily
           /\ Len(v.trns) = 2
           /\ \A i \in 1..Len(v.trns) :
                 /\ v.trns[i].account_type \notin PartyCandidateCodes
                 /\ \E a \in 1..Len(accounts) : accounts[a].id = v.trns[i].account

\* C10: while an alias table with a malformed row is an input of the run, the
\* run is loading the tables or has panicked, and no account and no voucher
\* was fetched, no voucher was transformed and no file was written
C10_MalformedAliasTableFailsAtLoad ==
    /\ account_map_str \in MalformedMapStrs =>
           pc \in { "load_account_map", "panicked" }
    /\ voucher_type_map_str \in MalformedMapStrs =>
           pc \in { "load_account_map", "load_voucher_type_map", "panicked" }
    /\ (account_map_str \in MalformedMapStrs \/
        voucher_type_map_str \in MalformedMapStrs) =>
           /\ accounts = << >>
           /\ vouchers = << >>
           /\ tally_messages = << >>
           /\ files = << >>

\* the account alias table was loaded and the run has panicked on the
\* malformed row of the voucher type alias table
C10_Witness ==
    /\ account_map_str \notin MalformedMapStrs
    /\ account_map # << >>
    /\ voucher_type_map_str \in MalformedMapStrs
    /\ pc = "panicked"
    /\ panic = UnwrapErr
    /\ files = << >>

\* the window of the file written last is the one whose vouchers are still in
\* vouchers: the next window is not fetched yet, or the run is done
LastFileIsOfVouchers ==
    /\ files # << >>
    /\ pc \in { "fetch_vouchers", "done" }

\* the request data payload of the file written last
LastPayload ==
    files[Len(files)].data.envelope.body.import_data.request_data.items

\* C11: the payload of a written document has one wrapper for each voucher of
\* its window, in the order of the vouchers, and each wrapper holds exactly
\* the one voucher that its input voucher transforms to
C11_OneWrapperPerVoucherInOrder ==
    LastFileIsOfVouchers =>
        /\ Len(LastPayload) = Len(vouchers)
        /\ \A k \in 1..Len(vouchers) :
              /\ Len(LastPayload[k].items) = 1
              /\ LastPayload[k].items[1].voucher_no = vouchers[k].voucher_no
              /\ LastPayload[k].items[1].date = vouchers[k].date
              /\ LastPayload[k].items[1] =
                     transform_voucher(vouchers[k], accounts, account_map,
                                       voucher_type_map).value

\* a document is written for a window of two different vouchers
C11_Witness ==
    /\ LastFileIsOfVouchers
    /\ Len(vouchers) = 2
    /\ vouchers[1].voucher_no # vouchers[2].voucher_no
    /\ Len(LastPayload) = 2
    /\ LastPayload[1].items[1].voucher_no = vouchers[1].voucher_no
    /\ LastPayload[2].items[1].voucher_no = vouchers[2].voucher_no

\* the target of the first row of an alias CSV (source name, target name,
\* under the header) whose source name is the name, else the name
FirstTarget(map_str, name) ==
    LET rows == { i \in 2..Len(map_str) : map_str[i][1] = name }
    IN  IF rows = {} THEN name
        ELSE LET first == CHOOSE i \in rows : \A j \in rows : i <= j
             IN  map_str[first][2]

\* the name of the account document of an account id
DocumentName(id) ==
    LET a == CHOOSE a \in 1..Len(accounts) : accounts[a].id = id
    IN  accounts[a].name

\* C12: a name resolved through an alias table is the target of the first
\* row of the table with that source name, and the name itself when no row has
\* it: the voucher type name and the entry names of an emitted voucher, and
\* the parent name of an account exported by export_ledger
C12_AliasIsFirstMatchOrName ==
    /\ \A k \in Emitted :
          /\ OutputOf(k).voucher_type =
                 FirstTarget(voucher_type_map_str,
                             VoucherTypeNames[InputOf(k).voucher_type])
          /\ \A i \in 1..Len(InputOf(k).trns) :
                \E j \in 1..Len(OutputOf(k).ledger_entries) :
                    /\ OutputOf(k).ledger_entries[j].ledger_name =
                           FirstTarget(account_map_str,
                                       DocumentName(InputOf(k).trns[i].account))
                    /\ OutputOf(k).ledger_entries[j].amount = InputOf(k).trns[i].amount
    /\ \A k \in 1..Len(export_ledger_run.tally_messages) :
          export_ledger_run.tally_messages[k].items[1].account_type =
              FirstTarget(export_ledger_run.account_type_map_str,
                          AccountTypeNames[export_ledger_run.account[k].account_type])

\* a SALE voucher is emitted as Memo, the target of the first of the two Sales
\* rows, with an entry Cash A/c, the target of the first of the two Cash rows
C12_Witness ==
    \E k \in Emitted :
        /\ InputOf(k).voucher_type = "SALE"
        /\ OutputOf(k).voucher_type = "Memo"
        /\ Cardinality({ i \in 2..Len(voucher_type_map_str) :
                           voucher_type_map_str[i][1] = "Sales" }) = 2
        /\ Cardinality({ i \in 2..Len(account_map_str) :
                           account_map_str[i][1] = "Cash" }) = 2
        /\ \E j \in 1..Len(OutputOf(k).ledger_entries) :
               OutputOf(k).ledger_entries[j].ledger_name = "Cash A/c"

\* the voucher type names the party rules and the sort exemption test for
KnownVoucherTypeNames == { "Contra", "Receipt", "Payment", "Journal" } \cup SalesFamily

\* the voucher type alias table rewrites the canonical name of the voucher to
\* a name outside the known ones
RewrittenOutside(voucher) ==
    LET vt == get_voucher_type(voucher.voucher_type, voucher_type_map)
    IN  /\ ~vt.panicked
        /\ vt.value \notin KnownVoucherTypeNames

\* an emitted voucher of a name outside the known ones has no party and its
\* entries are in descending order of amount
OutsideNameEmittedPlain ==
    \A k \in Emitted :
        OutputOf(k).voucher_type \notin KnownVoucherTypeNames =>
            /\ OutputOf(k).party_ledger = ""
            /\ Len(OutputOf(k).ledger_entries) = Len(InputOf(k).trns)
            /\ \A i, j \in 1..Len(OutputOf(k).ledger_entries) :
                  i < j => OutputOf(k).ledger_entries[i].amount >=
                           OutputOf(k).ledger_entries[j].amount

\* the transformation of the voucher at vi has panicked
PanickedOnVoucher == pc = "panicked" /\ vi <= Len(vouchers)

\* C13 as claimed: a voucher whose canonical name is rewritten to a name
\* outside the known ones is emitted without error, with an empty party and
\* sorted entries, whatever its code and whatever its legs
C13_OutsideNameAlwaysEmitted ==
    /\ OutsideNameEmittedPlain
    /\ ~(PanickedOnVoucher /\ RewrittenOutside(vouchers[vi]))

\* C13 as amended: a voucher whose canonical name is rewritten to a name
\* outside the known ones is emitted with an empty party and sorted entries,
\* whatever its code, unless one of its legs has an account id that no
\* account document has
C13_OutsideNameEmittedIfAccountsKnown ==
    /\ OutsideNameEmittedPlain
    /\ (PanickedOnVoucher /\ RewrittenOutside(vouchers[vi])) =>
           \E i \in 1..Len(vouchers[vi].trns) :
               \A a \in 1..Len(accounts) : accounts[a].id # vouchers[vi].trns[i].account

\* a JOURNAL voucher renamed Day Book is emitted with no party and its two
\* legs, the first a debit, swapped by the sort
C13_Witness ==
    \E k \in Emitted :
        /\ InputOf(k).voucher_type = "JOURNAL"
        /\ OutputOf(k).voucher_type = "Day Book"
        /\ OutputOf(k).party_ledger = ""
        /\ Len(InputOf(k).trns) = 2
        /\ InputOf(k).trns[1].amount < 0 /\ InputOf(k).trns[2].amount > 0
        /\ OutputOf(k).ledger_entries[1].amount = InputOf(k).trns[2].amount
        /\ OutputOf(k).ledger_entries[2].amount = InputOf(k).trns[1].amount

\* C14: with an empty account type alias table, two accounts of different
\* recognized account_type codes are exported with different parent names
C14_DistinctCodesDistinctNames ==
    export_ledger_run.account_type_map_str = << >> =>
        \A k1, k2 \in 1..Len(export_ledger_run.tally_messages) :
            export_ledger_run.account[k1].account_type #
                export_ledger_run.account[k2].account_type =>
                    export_ledger_run.tally_messages[k1].items[1].account_type #
                        export_ledger_run.tally_messages[k2].items[1].account_type

====
